---------------------------- MODULE Spec2Model ----------------------------
(***************************************************************************)
(* A model of monopoly_simulation-houses.py: the property catalog, the     *)
(* ownership ledger (MonopolyBoard), the player agent (Player) and the     *)
(* turn engine and game loop (MonopolyGame).                               *)
(*                                                                         *)
(* Every operation of the program is a pure operator on a game record g    *)
(* whose fields are the fields of the program's objects; the actions apply *)
(* these operators to the current state.  Players are numbered 0..N-1 in   *)
(* roster order, as self.players is indexed.  A Property object is         *)
(* identified by its board position; its one mutable field, houses, is the *)
(* function houses.  Property.name and Property.mortgage_value are read by *)
(* no operation and are left out.                                          *)
(*                                                                         *)
(* random.random() < chance is a free boolean wherever 0 < chance < 1,     *)
(* which is the case for every chance the program computes.                *)
(***************************************************************************)
EXTENDS Integers, Sequences, FiniteSets, TLC

VARIABLES
    \* Player
    strategy, preferred_colors, money, position, properties,
    get_out_of_jail_cards, in_jail, jail_turns, is_bankrupt,
    \* MonopolyBoard
    houses, property_owners, houses_remaining, hotels_remaining,
    \* MonopolyGame
    current_player_index, turn_count, max_turns, game_over, winner,
    \* play_turn: the place reached in the turn and its local total_roll
    pc, total_roll,
    \* handle_development_phase: its local development_attempts
    development_attempts,
    \* the value the last directly called board operation returned
    ret

vars == <<strategy, preferred_colors, money, position, properties,
          get_out_of_jail_cards, in_jail, jail_turns, is_bankrupt,
          houses, property_owners, houses_remaining, hotels_remaining,
          current_player_index, turn_count, max_turns, game_over, winner,
          pc, total_roll, development_attempts, ret>>

None == -1

BoardSize == 40
StartMoney == 1500
HousesTotal == 32
HotelsTotal == 12
GoSalary == 200
JailFee == 50
JailPosition == 10
MaxJailTurns == 3
MaxDevelopmentsPerTurn == 3

Strategies == {"random", "color_focused", "conservative", "aggressive", "house_hoarder"}

Property(pos, price, rent, color_group, property_type, house_cost) ==
    [position |-> pos, price |-> price, rent |-> rent, color_group |-> color_group,
     property_type |-> property_type, house_cost |-> house_cost]

create_board ==
    1 :> Property(1, 60, <<2, 10, 30, 90, 160, 250>>, "brown", "street", 50) @@
    3 :> Property(3, 60, <<4, 20, 60, 180, 320, 450>>, "brown", "street", 50) @@
    5 :> Property(5, 200, <<25>>, "railroad", "railroad", 0) @@
    6 :> Property(6, 100, <<6, 30, 90, 270, 400, 550>>, "light_blue", "street", 50) @@
    8 :> Property(8, 100, <<6, 30, 90, 270, 400, 550>>, "light_blue", "street", 50) @@
    9 :> Property(9, 120, <<8, 40, 100, 300, 450, 600>>, "light_blue", "street", 50) @@
    11 :> Property(11, 140, <<10, 50, 150, 450, 625, 750>>, "pink", "street", 100) @@
    12 :> Property(12, 150, <<0>>, "utility", "utility", 0) @@
    13 :> Property(13, 140, <<10, 50, 150, 450, 625, 750>>, "pink", "street", 100) @@
    14 :> Property(14, 160, <<12, 60, 180, 500, 700, 900>>, "pink", "street", 100) @@
    15 :> Property(15, 200, <<25>>, "railroad", "railroad", 0) @@
    16 :> Property(16, 180, <<14, 70, 200, 550, 750, 950>>, "orange", "street", 100) @@
    18 :> Property(18, 180, <<14, 70, 200, 550, 750, 950>>, "orange", "street", 100) @@
    19 :> Property(19, 200, <<16, 80, 220, 600, 800, 1000>>, "orange", "street", 100) @@
    21 :> Property(21, 220, <<18, 90, 250, 700, 875, 1050>>, "red", "street", 150) @@
    23 :> Property(23, 220, <<18, 90, 250, 700, 875, 1050>>, "red", "street", 150) @@
    24 :> Property(24, 240, <<20, 100, 300, 750, 925, 1100>>, "red", "street", 150) @@
    25 :> Property(25, 200, <<25>>, "railroad", "railroad", 0) @@
    26 :> Property(26, 260, <<22, 110, 330, 800, 975, 1150>>, "yellow", "street", 150) @@
    27 :> Property(27, 260, <<22, 110, 330, 800, 975, 1150>>, "yellow", "street", 150) @@
    28 :> Property(28, 150, <<0>>, "utility", "utility", 0) @@
    29 :> Property(29, 280, <<24, 120, 360, 850, 1025, 1200>>, "yellow", "street", 150) @@
    31 :> Property(31, 300, <<26, 130, 390, 900, 1100, 1275>>, "green", "street", 200) @@
    32 :> Property(32, 300, <<26, 130, 390, 900, 1100, 1275>>, "green", "street", 200) @@
    34 :> Property(34, 320, <<28, 150, 450, 1000, 1200, 1400>>, "green", "street", 200) @@
    35 :> Property(35, 200, <<25>>, "railroad", "railroad", 0) @@
    37 :> Property(37, 350, <<35, 175, 500, 1100, 1300, 1500>>, "dark_blue", "street", 200) @@
    39 :> Property(39, 400, <<50, 200, 600, 1400, 1700, 2000>>, "dark_blue", "street", 200)

\* The keys of board.properties.
PropPositions == DOMAIN create_board

\* get_property_at_position(position) is not None
get_property_at_position(pos) == pos \in PropPositions

Players(g) == DOMAIN g.money

-----------------------------------------------------------------------------
(* Sequence helpers: Python's min(), max() and list comprehensions.        *)

MinOf(S) == CHOOSE x \in S : \A y \in S : x <= y
MaxOf(S) == CHOOSE x \in S : \A y \in S : x >= y
Range(s) == {s[i] : i \in DOMAIN s}

\* F of the value of x: the sequencing of two statements, x computed once.
Then(x, F(_)) == CHOOSE after \in {F(v) : v \in {x}} : TRUE

RECURSIVE SumSeq(_)
SumSeq(s) == IF s = <<>> THEN 0 ELSE Head(s) + SumSeq(Tail(s))

-----------------------------------------------------------------------------
(* Property                                                                *)

\* current_rent charging the base rent on a hotel
current_rent_hotel_at_base(pos, h) ==
    LET rent == create_board[pos].rent IN
    IF h = 0 THEN rent[1]
    ELSE IF h <= 4 THEN rent[h + 1]
    ELSE rent[1]

\* Property.current_rent, of the property at pos when its houses field is h
current_rent(pos, h) ==
    LET rent == create_board[pos].rent IN
    IF h = 0 THEN rent[1]
    ELSE IF h <= 4 THEN rent[h + 1]
    ELSE IF Len(rent) > 5 THEN rent[6] ELSE rent[5] * 2

-----------------------------------------------------------------------------
(* Player                                                                  *)

\* move crediting the salary only when the player lands on GO
move_salary_on_go_only(g, p, steps) ==
    LET old_position == g.position[p] IN
    [g EXCEPT !.position[p] = (old_position + steps) % BoardSize,
              !.money[p] = IF (old_position + steps) % BoardSize = 0 THEN @ + GoSalary ELSE @]

\* the value move returns
move_passed_go(g, p, steps) == g.position[p] + steps >= BoardSize

move(g, p, steps) ==
    LET old_position == g.position[p] IN
    [g EXCEPT !.position[p] = (old_position + steps) % BoardSize,
              !.money[p] = IF old_position + steps >= BoardSize THEN @ + GoSalary ELSE @]

\* the value pay returns
pay_ok(g, p, amount) == g.money[p] >= amount

\* pay debiting the amount whether or not the cash covers it
pay_unchecked(g, p, amount) == [g EXCEPT !.money[p] = @ - amount]

\* the state pay leaves
pay(g, p, amount) ==
    IF pay_ok(g, p, amount) THEN [g EXCEPT !.money[p] = @ - amount] ELSE g

receive(g, p, amount) == [g EXCEPT !.money[p] = @ + amount]

owns_color_group(g, p, color_group) ==
    LET group_properties == {pos \in PropPositions :
                                /\ create_board[pos].color_group = color_group
                                /\ create_board[pos].property_type = "street"}
        owned_in_group == SelectSeq(g.properties[p],
                              LAMBDA pos : create_board[pos].color_group = color_group)
    IN  Len(owned_in_group) = Cardinality(group_properties)

\* dice_roll is the random.randint(2, 12) drawn for a utility
calculate_rent(g, owner, pos, dice_roll) ==
    LET type == create_board[pos].property_type
        count(t) == Len(SelectSeq(g.properties[owner],
                                  LAMBDA q : create_board[q].property_type = t))
    IN  IF type = "railroad" THEN 25 * (2 ^ (count("railroad") - 1))
        ELSE IF type = "utility"
             THEN dice_roll * (IF count("utility") = 2 THEN 10 ELSE 4)
        ELSE IF g.houses[pos] > 0 THEN current_rent(pos, g.houses[pos])
        ELSE IF owns_color_group(g, owner, create_board[pos].color_group)
             THEN create_board[pos].rent[1] * 2
             ELSE create_board[pos].rent[1]

\* coin is random.random() < 0.3, drawn by the RANDOM strategy only
should_develop_property(g, p, coin) ==
    CASE g.strategy[p] = "aggressive"    -> g.money[p] > 500
      [] g.strategy[p] = "conservative"  -> g.money[p] > 1000
      [] g.strategy[p] = "color_focused" -> g.money[p] > 300
      [] g.strategy[p] = "house_hoarder" -> g.money[p] > 200
      [] OTHER                           -> coin /\ g.money[p] > 400

\* min(s, key=houses): the first element of s with the fewest houses
FirstWithFewestHouses(g, s) ==
    LET i == CHOOSE i \in DOMAIN s :
                 /\ \A j \in DOMAIN s : g.houses[s[i]] <= g.houses[s[j]]
                 /\ \A j \in 1..(i - 1) : g.houses[s[j]] > g.houses[s[i]]
    IN  s[i]

\* The default loop of choose_property_to_develop from index i on; best is
\* <<best_prop, n, d>> with best_ratio = n / d, compared exactly.
RECURSIVE BestRatio(_, _, _, _)
BestRatio(g, developable, i, best) ==
    IF i > Len(developable) THEN best[1]
    ELSE LET prop == developable[i]
             h == g.houses[prop]
             rent == create_board[prop].rent
             cost == create_board[prop].house_cost
             next_rent == IF h < 4 THEN rent[h + 2]
                          ELSE IF Len(rent) > 5 THEN rent[6] ELSE rent[5] * 2
             n == next_rent - current_rent(prop, h)
             better == h <= 4 /\ n * best[3] > best[2] * cost
         IN  BestRatio(g, developable, i + 1,
                       IF better THEN <<prop, n, cost>> ELSE best)

\* The hoarder's block without its filter: any candidate may be chosen.
choose_property_to_develop_hotels_too(g, p, developable) ==
    LET preferred == SelectSeq(g.preferred_colors[p],
                        LAMBDA c : \E i \in DOMAIN developable :
                                      create_board[developable[i]].color_group = c)
        best_prop == BestRatio(g, developable, 1, <<None, 0, 1>>)
    IN  IF g.strategy[p] = "color_focused" /\ preferred # <<>>
        THEN LET i == MinOf({i \in DOMAIN developable :
                         create_board[developable[i]].color_group = preferred[1]})
             IN  developable[i]
        ELSE IF best_prop # None THEN best_prop ELSE developable[1]

\* The property chosen, or None.  developable is not empty.
choose_property_to_develop(g, p, developable) ==
    LET house_properties == SelectSeq(developable, LAMBDA prop : g.houses[prop] < 4)
        preferred == SelectSeq(g.preferred_colors[p],
                        LAMBDA c : \E i \in DOMAIN developable :
                                      create_board[developable[i]].color_group = c)
        best_prop == BestRatio(g, developable, 1, <<None, 0, 1>>)
    IN  IF g.strategy[p] = "house_hoarder"
        THEN IF house_properties # <<>>
             THEN FirstWithFewestHouses(g, house_properties)
             ELSE None
        ELSE IF g.strategy[p] = "color_focused" /\ preferred # <<>>
        THEN LET i == MinOf({i \in DOMAIN developable :
                         create_board[developable[i]].color_group = preferred[1]})
             IN  developable[i]
        ELSE IF best_prop # None THEN best_prop ELSE developable[1]

-----------------------------------------------------------------------------
(* MonopolyBoard                                                           *)

\* The player's own properties of the color group, in holdings order.
group_properties_of(g, p, color_group) ==
    SelectSeq(g.properties[p], LAMBDA pos : create_board[pos].color_group = color_group)

\* can_build_houses raises ValueError at min() of an empty list: the group
\* has no street and the player holds none of it (railroad, utility).
can_build_houses_raises(g, color_group, p) ==
    /\ owns_color_group(g, p, color_group)
    /\ group_properties_of(g, p, color_group) = <<>>

\* can_build_houses where it returns
can_build_houses(g, color_group, p) ==
    /\ owns_color_group(g, p, color_group)
    /\ LET levels == {g.houses[q] : q \in Range(group_properties_of(g, p, color_group))}
       IN  MaxOf(levels) - MinOf(levels) <= 1

\* build_house without its test of the house pool
build_house_ok_no_pool_test(g, pos, p) ==
    /\ ~can_build_houses_raises(g, create_board[pos].color_group, p)
    /\ can_build_houses(g, create_board[pos].color_group, p)
    /\ g.houses[pos] < 4
    /\ pay_ok(g, p, create_board[pos].house_cost)

\* build_house returns True
build_house_ok(g, pos, p) ==
    /\ ~can_build_houses_raises(g, create_board[pos].color_group, p)
    /\ can_build_houses(g, create_board[pos].color_group, p)
    /\ g.houses[pos] < 4
    /\ g.houses_remaining > 0
    /\ pay_ok(g, p, create_board[pos].house_cost)

\* the state build_house leaves
build_house(g, pos, p) ==
    IF build_house_ok(g, pos, p)
    THEN LET paid == pay(g, p, create_board[pos].house_cost)
         IN  [paid EXCEPT !.houses[pos] = @ + 1,
                          !.houses_remaining = @ - 1]
    ELSE g

\* build_hotel without its test of the hotel pool
build_hotel_ok_no_pool_test(g, pos, p) ==
    /\ g.houses[pos] = 4
    /\ pay_ok(g, p, create_board[pos].house_cost)

\* build_hotel returns True
build_hotel_ok(g, pos, p) ==
    /\ g.houses[pos] = 4
    /\ g.hotels_remaining > 0
    /\ pay_ok(g, p, create_board[pos].house_cost)

\* build_hotel keeping the four houses on the board's account
build_hotel_keeps_houses(g, pos, p) ==
    IF build_hotel_ok(g, pos, p)
    THEN LET paid == pay(g, p, create_board[pos].house_cost)
         IN  [paid EXCEPT !.houses[pos] = 5,
                          !.hotels_remaining = @ - 1]
    ELSE g

\* the state build_hotel leaves
build_hotel(g, pos, p) ==
    IF build_hotel_ok(g, pos, p)
    THEN LET paid == pay(g, p, create_board[pos].house_cost)
         IN  [paid EXCEPT !.houses[pos] = 5,
                          !.houses_remaining = @ + 4,
                          !.hotels_remaining = @ - 1]
    ELSE g

\* The keys of the color_groups dict, in insertion order.
RECURSIVE ColorGroupKeys(_, _)
ColorGroupKeys(streets, seen) ==
    IF streets = <<>> THEN <<>>
    ELSE LET c == create_board[Head(streets)].color_group
         IN  IF c \in seen THEN ColorGroupKeys(Tail(streets), seen)
             ELSE <<c>> \o ColorGroupKeys(Tail(streets), seen \cup {c})

\* The second loop of get_developable_properties over the remaining keys.
RECURSIVE DevelopableIn(_, _, _, _)
DevelopableIn(g, p, streets, keys) ==
    IF keys = <<>> THEN <<>>
    ELSE LET color_group == Head(keys)
             props == SelectSeq(streets,
                          LAMBDA pos : create_board[pos].color_group = color_group)
             min_houses == MinOf({g.houses[q] : q \in Range(props)})
             found == SelectSeq(props, LAMBDA prop :
                          \/ g.houses[prop] = min_houses /\ g.houses[prop] < 4
                          \/ g.houses[prop] = 4 /\ g.hotels_remaining > 0)
         IN  (IF owns_color_group(g, p, color_group) THEN found ELSE <<>>)
                 \o DevelopableIn(g, p, streets, Tail(keys))

get_developable_properties(g, p) ==
    LET streets == SelectSeq(g.properties[p],
                       LAMBDA pos : create_board[pos].property_type = "street")
    IN  DevelopableIn(g, p, streets, ColorGroupKeys(streets, {}))

is_property_owned(g, pos) == g.property_owners[pos] # None

get_property_owner(g, pos) == g.property_owners[pos]

\* buy_property returns True
buy_property_ok(g, pos, p) ==
    /\ get_property_at_position(pos)
    /\ ~is_property_owned(g, pos)
    /\ pay_ok(g, p, create_board[pos].price)

\* buy_property without its test of the owner map
buy_property_owned_too(g, pos, p) ==
    IF get_property_at_position(pos) /\ pay_ok(g, p, create_board[pos].price)
    THEN LET paid == pay(g, p, create_board[pos].price)
         IN  [paid EXCEPT !.property_owners[pos] = p,
                          !.properties[p] = Append(@, pos)]
    ELSE g

\* buy_property leaving the owner map as it was
buy_property_no_ledger(g, pos, p) ==
    IF buy_property_ok(g, pos, p)
    THEN LET paid == pay(g, p, create_board[pos].price)
         IN  [paid EXCEPT !.properties[p] = Append(@, pos)]
    ELSE g

\* the state buy_property leaves
buy_property(g, pos, p) ==
    IF buy_property_ok(g, pos, p)
    THEN LET paid == pay(g, p, create_board[pos].price)
         IN  [paid EXCEPT !.property_owners[pos] = p,
                          !.properties[p] = Append(@, pos)]
    ELSE g

-----------------------------------------------------------------------------
(* MonopolyGame                                                            *)

\* The constructed game: player_configs is a sequence of
\* [strategy, preferred_colors] records, player i being player_configs[i+1].
MonopolyGame(player_configs, max) ==
    LET P == 0..(Len(player_configs) - 1) IN
    [strategy              |-> [p \in P |-> player_configs[p + 1].strategy],
     preferred_colors      |-> [p \in P |-> player_configs[p + 1].preferred_colors],
     money                 |-> [p \in P |-> StartMoney],
     position              |-> [p \in P |-> 0],
     properties            |-> [p \in P |-> <<>>],
     get_out_of_jail_cards |-> [p \in P |-> 0],
     in_jail               |-> [p \in P |-> FALSE],
     jail_turns            |-> [p \in P |-> 0],
     is_bankrupt           |-> [p \in P |-> FALSE],
     houses                |-> [pos \in PropPositions |-> 0],
     property_owners       |-> [pos \in PropPositions |-> None],
     houses_remaining      |-> HousesTotal,
     hotels_remaining      |-> HotelsTotal,
     current_player_index  |-> 0,
     turn_count            |-> 0,
     max_turns             |-> max,
     game_over             |-> FALSE,
     winner                |-> None]

\* The while loop of handle_development_phase.  flips is the number of
\* times the RANDOM strategy's coin comes up true before it comes up false.
RECURSIVE DevelopmentLoop(_, _, _, _)
DevelopmentLoop(g, p, attempts, flips) ==
    LET developable == get_developable_properties(g, p) IN
    IF \/ developable = <<>>
       \/ attempts >= MaxDevelopmentsPerTurn
       \/ ~should_develop_property(g, p, attempts < flips)
    THEN g
    ELSE LET prop_to_develop == choose_property_to_develop(g, p, developable) IN
         IF prop_to_develop = None THEN g
         ELSE IF g.houses[prop_to_develop] = 4
         THEN IF build_hotel_ok(g, prop_to_develop, p)
              THEN Then(build_hotel(g, prop_to_develop, p),
                        LAMBDA built : DevelopmentLoop(built, p, attempts + 1, flips))
              ELSE g
         ELSE IF build_house_ok(g, prop_to_develop, p)
              THEN Then(build_house(g, prop_to_develop, p),
                        LAMBDA built : DevelopmentLoop(built, p, attempts + 1, flips))
              ELSE g

handle_development_phase(g, p, flips) ==
    IF g.is_bankrupt[p] THEN g ELSE DevelopmentLoop(g, p, 0, flips)

\* The test of the while loop without its cap on the builds of a turn.
development_continues_no_cap(g, p, attempts, coin) ==
    /\ get_developable_properties(g, p) # <<>>
    /\ should_develop_property(g, p, coin)

\* The test of the while loop of handle_development_phase; coin is the
\* outcome of the RANDOM strategy's random.random() < 0.3.
development_continues(g, p, attempts, coin) ==
    /\ get_developable_properties(g, p) # <<>>
    /\ attempts < MaxDevelopmentsPerTurn
    /\ should_develop_property(g, p, coin)

\* The body of the loop: success, the value of the build it calls, false
\* where choose_property_to_develop returns None.
development_success(g, p) ==
    LET prop_to_develop ==
            choose_property_to_develop(g, p, get_developable_properties(g, p))
    IN  /\ prop_to_develop # None
        /\ IF g.houses[prop_to_develop] = 4
           THEN build_hotel_ok(g, prop_to_develop, p)
           ELSE build_house_ok(g, prop_to_develop, p)

\* The state the body of the loop leaves.
development_build(g, p) ==
    LET prop_to_develop ==
            choose_property_to_develop(g, p, get_developable_properties(g, p))
    IN  IF prop_to_develop = None THEN g
        ELSE IF g.houses[prop_to_develop] = 4
        THEN build_hotel(g, prop_to_develop, p)
        ELSE build_house(g, prop_to_develop, p)

\* coin is random.random() < base_chance (RANDOM and COLOR_FOCUSED only)
should_buy_property(g, p, pos, coin) ==
    LET price == create_board[pos].price IN
    IF g.money[p] < price THEN FALSE
    ELSE CASE g.strategy[p] = "random"        -> coin
           [] g.strategy[p] = "color_focused" -> coin
           [] g.strategy[p] = "conservative"  -> g.money[p] > price * 3
           [] g.strategy[p] = "aggressive"    -> g.money[p] > price + 100
           [] g.strategy[p] = "house_hoarder" -> g.money[p] > price + 10
           [] OTHER                           -> FALSE

\* Rent settlement paying whatever the payer has when the rent is too high.
settle_rent_partial(g, p, owner, rent) ==
    IF pay_ok(g, p, rent) THEN receive(pay(g, p, rent), owner, rent)
    ELSE [receive(g, owner, g.money[p]) EXCEPT !.money[p] = 0, !.is_bankrupt[p] = TRUE]

\* lines 409-412: pay the rent to the owner, or go bankrupt
settle_rent(g, p, owner, rent) ==
    IF pay_ok(g, p, rent) THEN receive(pay(g, p, rent), owner, rent)
    ELSE [g EXCEPT !.is_bankrupt[p] = TRUE]

\* rent is due: the space is owned by another player who is not bankrupt
rent_is_due(g, p, pos) ==
    /\ get_property_at_position(pos)
    /\ is_property_owned(g, pos)
    /\ get_property_owner(g, pos) # p
    /\ ~g.is_bankrupt[get_property_owner(g, pos)]

\* handle_property_landing paying rent to a bankrupt owner too
handle_property_landing_pays_bankrupt(g, p, pos, dice_roll, coin) ==
    IF ~get_property_at_position(pos) THEN g
    ELSE IF is_property_owned(g, pos)
    THEN LET owner == get_property_owner(g, pos) IN
         IF owner # p
         THEN settle_rent(g, p, owner, calculate_rent(g, owner, pos, dice_roll))
         ELSE g
    ELSE IF should_buy_property(g, p, pos, coin) THEN buy_property(g, pos, p) ELSE g

handle_property_landing(g, p, pos, dice_roll, coin) ==
    IF ~get_property_at_position(pos) THEN g
    ELSE IF is_property_owned(g, pos)
    THEN LET owner == get_property_owner(g, pos) IN
         IF owner # p /\ ~g.is_bankrupt[owner]
         THEN settle_rent(g, p, owner, calculate_rent(g, owner, pos, dice_roll))
         ELSE g
    ELSE IF should_buy_property(g, p, pos, coin) THEN buy_property(g, pos, p) ELSE g

advance_to_go(g, p) == receive([g EXCEPT !.position[p] = 0], p, GoSalary)

send_to_jail(g, p) == [g EXCEPT !.position[p] = JailPosition, !.in_jail[p] = TRUE]

\* The loop of pay_all_players from roster index i on.
RECURSIVE PayAllFrom(_, _, _, _)
PayAllFrom(g, p, amount, i) ==
    IF i \notin Players(g) THEN g
    ELSE IF i # p /\ ~g.is_bankrupt[i]
    THEN IF pay_ok(g, p, amount)
         THEN Then(receive(pay(g, p, amount), i, amount),
                   LAMBDA paid : PayAllFrom(paid, p, amount, i + 1))
         ELSE g
    ELSE PayAllFrom(g, p, amount, i + 1)

pay_all_players(g, p, amount) == PayAllFrom(g, p, amount, 0)

\* card is the index random.choice draws in the four-card list
draw_community_chest(g, p, card) ==
    CASE card = 0 -> advance_to_go(g, p)
      [] card = 1 -> receive(g, p, 200)
      [] card = 2 -> pay(g, p, 100)
      [] OTHER    -> [g EXCEPT !.get_out_of_jail_cards[p] = @ + 1]

draw_chance(g, p, card) ==
    CASE card = 0 -> advance_to_go(g, p)
      [] card = 1 -> send_to_jail(g, p)
      [] card = 2 -> pay_all_players(g, p, 50)
      [] OTHER    -> receive(g, p, 150)

CommunityChestPositions == {2, 17, 33}
ChancePositions == {7, 22, 36}

\* handle_special_spaces marking bankrupt the player who cannot pay a tax
handle_special_spaces_tax_bankrupts(g, p, pos, card) ==
    IF pos = 30 THEN [g EXCEPT !.position[p] = 10, !.in_jail[p] = TRUE]
    ELSE IF pos \in CommunityChestPositions THEN draw_community_chest(g, p, card)
    ELSE IF pos \in ChancePositions THEN draw_chance(g, p, card)
    ELSE IF pos = 4
    THEN IF pay_ok(g, p, 200) THEN pay(g, p, 200) ELSE [g EXCEPT !.is_bankrupt[p] = TRUE]
    ELSE IF pos = 38
    THEN IF pay_ok(g, p, 100) THEN pay(g, p, 100) ELSE [g EXCEPT !.is_bankrupt[p] = TRUE]
    ELSE g

\* handle_special_spaces jailing the player on the Go To Jail space in place.
handle_special_spaces_jailed_in_place(g, p, pos, card) ==
    IF pos = 30 THEN [g EXCEPT !.in_jail[p] = TRUE]
    ELSE IF pos \in CommunityChestPositions THEN draw_community_chest(g, p, card)
    ELSE IF pos \in ChancePositions THEN draw_chance(g, p, card)
    ELSE IF pos = 4 THEN pay(g, p, 200)
    ELSE IF pos = 38 THEN pay(g, p, 100)
    ELSE g

handle_special_spaces(g, p, pos, card) ==
    IF pos = 30 THEN [g EXCEPT !.position[p] = 10, !.in_jail[p] = TRUE]
    ELSE IF pos \in CommunityChestPositions THEN draw_community_chest(g, p, card)
    ELSE IF pos \in ChancePositions THEN draw_chance(g, p, card)
    ELSE IF pos = 4 THEN pay(g, p, 200)
    ELSE IF pos = 38 THEN pay(g, p, 100)
    ELSE g

\* the key of max() in next_player
net_worth(g, p) ==
    g.money[p] + SumSeq([i \in DOMAIN g.properties[p] |->
                            create_board[g.properties[p][i]].price])

\* max() keeping the last player of greatest key
richest_player_last(g) ==
    CHOOSE p \in Players(g) :
        /\ \A q \in Players(g) : net_worth(g, q) <= net_worth(g, p)
        /\ \A q \in Players(g) : q > p => net_worth(g, q) < net_worth(g, p)

\* max(self.players, key=...): the first player of greatest key
richest_player(g) ==
    CHOOSE p \in Players(g) :
        /\ \A q \in Players(g) : net_worth(g, q) <= net_worth(g, p)
        /\ \A q \in Players(g) : q < p => net_worth(g, q) < net_worth(g, p)

active_players(g) == {p \in Players(g) : ~g.is_bankrupt[p]}

\* next_player testing the turn cap before it counts the players left.
next_player_cap_first(g) ==
    LET index == (g.current_player_index + 1) % Cardinality(Players(g))
        g1 == [g EXCEPT !.current_player_index = index,
                        !.turn_count = IF index = 0 THEN @ + 1 ELSE @]
    IN  IF g1.turn_count >= g1.max_turns
        THEN [g1 EXCEPT !.game_over = TRUE, !.winner = richest_player(g1)]
        ELSE IF Cardinality(active_players(g1)) <= 1
        THEN [g1 EXCEPT !.game_over = TRUE,
                        !.winner = IF active_players(g1) # {}
                                   THEN MinOf(active_players(g1)) ELSE @]
        ELSE g1

\* next_player moving on to the next player who is not bankrupt.
next_player_past_bankrupt(g) ==
    LET N == Cardinality(Players(g))
        steps == MinOf({k \in 1..N :
                           k = N \/ ~g.is_bankrupt[(g.current_player_index + k) % N]})
        g1 == [g EXCEPT !.current_player_index = (@ + steps) % N,
                        !.turn_count = IF g.current_player_index + steps >= N
                                       THEN @ + 1 ELSE @]
    IN  IF Cardinality(active_players(g1)) <= 1
        THEN [g1 EXCEPT !.game_over = TRUE,
                        !.winner = IF active_players(g1) # {}
                                   THEN MinOf(active_players(g1)) ELSE @]
        ELSE IF g1.turn_count >= g1.max_turns
        THEN [g1 EXCEPT !.game_over = TRUE, !.winner = richest_player(g1)]
        ELSE g1

next_player(g) ==
    LET index == (g.current_player_index + 1) % Cardinality(Players(g))
        g1 == [g EXCEPT !.current_player_index = index,
                        !.turn_count = IF index = 0 THEN @ + 1 ELSE @]
    IN  IF Cardinality(active_players(g1)) <= 1
        THEN [g1 EXCEPT !.game_over = TRUE,
                        !.winner = IF active_players(g1) # {}
                                   THEN MinOf(active_players(g1)) ELSE @]
        ELSE IF g1.turn_count >= g1.max_turns
        THEN [g1 EXCEPT !.game_over = TRUE, !.winner = richest_player(g1)]
        ELSE g1

\* The jail block leaving jail_turns as it is on a release by doubles.
jail_block_doubles_keep_count(g, p, is_doubles) ==
    IF ~g.in_jail[p] THEN g
    ELSE IF g.get_out_of_jail_cards[p] > 0
    THEN [g EXCEPT !.get_out_of_jail_cards[p] = @ - 1, !.in_jail[p] = FALSE]
    ELSE IF is_doubles
    THEN [g EXCEPT !.in_jail[p] = FALSE]
    ELSE IF pay_ok(g, p, JailFee)
    THEN [pay(g, p, JailFee) EXCEPT !.in_jail[p] = FALSE, !.jail_turns[p] = 0]
    ELSE LET g1 == [g EXCEPT !.jail_turns[p] = @ + 1] IN
         IF g1.jail_turns[p] >= MaxJailTurns
         THEN IF pay_ok(g1, p, JailFee)
              THEN [pay(g1, p, JailFee) EXCEPT !.in_jail[p] = FALSE, !.jail_turns[p] = 0]
              ELSE [g1 EXCEPT !.is_bankrupt[p] = TRUE]
         ELSE g1

\* The jail block testing the doubles before the card.
jail_block_doubles_first(g, p, is_doubles) ==
    IF ~g.in_jail[p] THEN g
    ELSE IF is_doubles
    THEN [g EXCEPT !.in_jail[p] = FALSE, !.jail_turns[p] = 0]
    ELSE IF g.get_out_of_jail_cards[p] > 0
    THEN [g EXCEPT !.get_out_of_jail_cards[p] = @ - 1, !.in_jail[p] = FALSE]
    ELSE IF pay_ok(g, p, JailFee)
    THEN [pay(g, p, JailFee) EXCEPT !.in_jail[p] = FALSE, !.jail_turns[p] = 0]
    ELSE LET g1 == [g EXCEPT !.jail_turns[p] = @ + 1] IN
         IF g1.jail_turns[p] >= MaxJailTurns
         THEN IF pay_ok(g1, p, JailFee)
              THEN [pay(g1, p, JailFee) EXCEPT !.in_jail[p] = FALSE, !.jail_turns[p] = 0]
              ELSE [g1 EXCEPT !.is_bankrupt[p] = TRUE]
         ELSE g1

\* The jail block without the deadline of three turns.
jail_block_no_deadline(g, p, is_doubles) ==
    IF ~g.in_jail[p] THEN g
    ELSE IF g.get_out_of_jail_cards[p] > 0
    THEN [g EXCEPT !.get_out_of_jail_cards[p] = @ - 1, !.in_jail[p] = FALSE]
    ELSE IF is_doubles
    THEN [g EXCEPT !.in_jail[p] = FALSE, !.jail_turns[p] = 0]
    ELSE IF pay_ok(g, p, JailFee)
    THEN [pay(g, p, JailFee) EXCEPT !.in_jail[p] = FALSE, !.jail_turns[p] = 0]
    ELSE [g EXCEPT !.jail_turns[p] = @ + 1]

\* Lines 486-512 of play_turn, the jail block: the state it leaves.
jail_block(g, p, is_doubles) ==
    IF ~g.in_jail[p] THEN g
    ELSE IF g.get_out_of_jail_cards[p] > 0
    THEN [g EXCEPT !.get_out_of_jail_cards[p] = @ - 1, !.in_jail[p] = FALSE]
    ELSE IF is_doubles
    THEN [g EXCEPT !.in_jail[p] = FALSE, !.jail_turns[p] = 0]
    ELSE IF pay_ok(g, p, JailFee)
    THEN [pay(g, p, JailFee) EXCEPT !.in_jail[p] = FALSE, !.jail_turns[p] = 0]
    ELSE LET g1 == [g EXCEPT !.jail_turns[p] = @ + 1] IN
         IF g1.jail_turns[p] >= MaxJailTurns
         THEN IF pay_ok(g1, p, JailFee)
              THEN [pay(g1, p, JailFee) EXCEPT !.in_jail[p] = FALSE, !.jail_turns[p] = 0]
              ELSE [g1 EXCEPT !.is_bankrupt[p] = TRUE]
         ELSE g1

\* The jail block without its early returns: the turn goes on to the move.
jail_block_never_returns(g, p, is_doubles) == FALSE

\* The jail block ends the turn (the two early returns at 507 and 511):
\* the player is still in jail after it.
jail_block_returns(g, p, is_doubles) == jail_block(g, p, is_doubles).in_jail[p]

\* One whole call of play_turn.  d holds what the turn draws: die1, die2
\* (roll_dice), card (random.choice), dice_roll (the utility's randint),
\* coin (should_buy_property) and flips (should_develop_property).
play_turn(g, d) ==
    IF g.game_over THEN g
    ELSE LET p == g.current_player_index
             landing(g3) == IF ~g3.is_bankrupt[p]
                            THEN handle_property_landing(g3, p, g3.position[p],
                                                         d.dice_roll, d.coin)
                            ELSE g3
             development(g4) == IF ~g4.is_bankrupt[p]
                                THEN handle_development_phase(g4, p, d.flips)
                                ELSE g4
         IN  IF g.is_bankrupt[p] THEN next_player(g)
             ELSE IF jail_block_returns(g, p, d.die1 = d.die2)
             THEN Then(jail_block(g, p, d.die1 = d.die2), next_player)
             ELSE Then(Then(Then(Then(Then(jail_block(g, p, d.die1 = d.die2),
                      LAMBDA g1 : move(g1, p, d.die1 + d.die2)),
                      LAMBDA g2 : handle_special_spaces(g2, p, g2.position[p], d.card)),
                      landing), development), next_player)

\* The game after play_turn has run once for each element of draws.
RECURSIVE Replay(_, _)
Replay(g, draws) ==
    IF draws = <<>> \/ g.game_over THEN g
    ELSE IF Len(draws) = 1 THEN play_turn(g, draws[1])
    ELSE LET half == Len(draws) \div 2
         IN  Then(Replay(g, SubSeq(draws, 1, half)),
                  LAMBDA after : Replay(after, SubSeq(draws, half + 1, Len(draws))))

-----------------------------------------------------------------------------
(* The state, as a game record, and the assignment of a record to it.      *)

G == [strategy              |-> strategy,
      preferred_colors      |-> preferred_colors,
      money                 |-> money,
      position              |-> position,
      properties            |-> properties,
      get_out_of_jail_cards |-> get_out_of_jail_cards,
      in_jail               |-> in_jail,
      jail_turns            |-> jail_turns,
      is_bankrupt           |-> is_bankrupt,
      houses                |-> houses,
      property_owners       |-> property_owners,
      houses_remaining      |-> houses_remaining,
      hotels_remaining      |-> hotels_remaining,
      current_player_index  |-> current_player_index,
      turn_count            |-> turn_count,
      max_turns             |-> max_turns,
      game_over             |-> game_over,
      winner                |-> winner]

Becomes(g) ==
    /\ strategy' = g.strategy
    /\ preferred_colors' = g.preferred_colors
    /\ money' = g.money
    /\ position' = g.position
    /\ properties' = g.properties
    /\ get_out_of_jail_cards' = g.get_out_of_jail_cards
    /\ in_jail' = g.in_jail
    /\ jail_turns' = g.jail_turns
    /\ is_bankrupt' = g.is_bankrupt
    /\ houses' = g.houses
    /\ property_owners' = g.property_owners
    /\ houses_remaining' = g.houses_remaining
    /\ hotels_remaining' = g.hotels_remaining
    /\ current_player_index' = g.current_player_index
    /\ turn_count' = g.turn_count
    /\ max_turns' = g.max_turns
    /\ game_over' = g.game_over
    /\ winner' = g.winner

Starts(g) ==
    /\ strategy = g.strategy
    /\ preferred_colors = g.preferred_colors
    /\ money = g.money
    /\ position = g.position
    /\ properties = g.properties
    /\ get_out_of_jail_cards = g.get_out_of_jail_cards
    /\ in_jail = g.in_jail
    /\ jail_turns = g.jail_turns
    /\ is_bankrupt = g.is_bankrupt
    /\ houses = g.houses
    /\ property_owners = g.property_owners
    /\ houses_remaining = g.houses_remaining
    /\ hotels_remaining = g.hotels_remaining
    /\ current_player_index = g.current_player_index
    /\ turn_count = g.turn_count
    /\ max_turns = g.max_turns
    /\ game_over = g.game_over
    /\ winner = g.winner

-----------------------------------------------------------------------------
(* The game, driven by play_turn alone.  play_turn is followed through its *)
(* calls: pc is the call it makes next.                                    *)

DieFaces == 1..6

\* The current player of the running turn.
player == current_player_index

\* The cards random.choice can draw on the space, 0 where nothing is drawn.
CardsAt(pos) ==
    IF pos \in CommunityChestPositions \cup ChancePositions THEN 0..3 ELSE {0}

\* The values random.randint(2, 12) can give where rent on a utility is due.
UtilityRollsAt(g, p, pos) ==
    IF rent_is_due(g, p, pos) /\ create_board[pos].property_type = "utility"
    THEN 2..12 ELSE {2}

\* The outcomes of random.random() < base_chance where it is drawn.
BuyCoinsAt(g, p, pos) ==
    IF /\ get_property_at_position(pos)
       /\ ~is_property_owned(g, pos)
       /\ g.money[p] >= create_board[pos].price
       /\ g.strategy[p] \in {"random", "color_focused"}
    THEN BOOLEAN ELSE {FALSE}

\* The numbers of leading true flips of the RANDOM strategy's develop coin.
FlipsOf(g, p) ==
    IF g.strategy[p] = "random" /\ get_developable_properties(g, p) # <<>>
    THEN 0..MaxDevelopmentsPerTurn ELSE {0}

\* play_turn up to player.move: the bankrupt skip, roll_dice, the jail block.
\* play_turn from the roll die1, die2 to the end of the jail block.
Rolled(die1, die2) ==
    LET g1 == jail_block(G, player, die1 = die2) IN
    IF jail_block_returns(G, player, die1 = die2)
    THEN /\ Becomes(next_player(g1))
         /\ UNCHANGED <<pc, total_roll>>
    ELSE /\ Becomes(g1)
         /\ pc' = "move"
         /\ total_roll' = die1 + die2

PlayTurn ==
    /\ pc = "turn"
    /\ ~game_over
    /\ IF is_bankrupt[player]
       THEN /\ Becomes(next_player(G))
            /\ UNCHANGED <<pc, total_roll>>
       ELSE \E die1 \in DieFaces, die2 \in DieFaces : Rolled(die1, die2)
    /\ UNCHANGED <<development_attempts, ret>>

Move ==
    /\ pc = "move"
    /\ Becomes(move(G, player, total_roll))
    /\ pc' = "special"
    /\ total_roll' = 0
    /\ UNCHANGED <<development_attempts, ret>>

HandleSpecialSpaces ==
    /\ pc = "special"
    /\ \E card \in CardsAt(position[player]) :
          Becomes(handle_special_spaces(G, player, position[player], card))
    /\ pc' = "landing"
    /\ UNCHANGED <<total_roll, development_attempts, ret>>

HandlePropertyLanding ==
    /\ pc = "landing"
    /\ IF ~is_bankrupt[player]
       THEN \E dice_roll \in UtilityRollsAt(G, player, position[player]),
               coin \in BuyCoinsAt(G, player, position[player]) :
              Becomes(handle_property_landing(G, player, position[player],
                                              dice_roll, coin))
       ELSE Becomes(G)
    /\ pc' = "develop"
    /\ UNCHANGED <<total_roll, development_attempts, ret>>

HandleDevelopmentPhase ==
    /\ pc = "develop"
    /\ IF ~is_bankrupt[player]
       THEN \E flips \in FlipsOf(G, player) :
              Becomes(handle_development_phase(G, player, flips))
       ELSE Becomes(G)
    /\ pc' = "next"
    /\ UNCHANGED <<total_roll, development_attempts, ret>>

NextPlayer ==
    /\ pc = "next"
    /\ Becomes(next_player(G))
    /\ pc' = "turn"
    /\ UNCHANGED <<total_roll, development_attempts, ret>>

Next ==
    \/ PlayTurn
    \/ Move
    \/ HandleSpecialSpaces
    \/ HandlePropertyLanding
    \/ HandleDevelopmentPhase
    \/ NextPlayer

-----------------------------------------------------------------------------
(* The games the model starts from: the constructed games, and games some  *)
(* turns in, each the state play_turn leaves after a recorded sequence of  *)
(* draws.                                                                  *)

Config(strat, colors) == [strategy |-> strat, preferred_colors |-> colors]

\* A recorded turn: <<die1, die2, card, dice_roll, coin, flips>>.
Draw(t) ==
    [die1 |-> t[1], die2 |-> t[2], card |-> t[3], dice_roll |-> t[4],
     coin |-> t[5] = 1, flips |-> t[6]]

\* The largest max_turns of a constructed game.
MaxTurns == 1

\* How many rounds a game some turns in has left before its turn cap.
ExtraRounds == 1

Rosters ==
    {<<Config("random", <<>>)>>,
     <<Config("house_hoarder", <<>>), Config("random", <<>>)>>,
     <<Config("color_focused", <<"light_blue", "brown">>), Config("aggressive", <<>>),
       Config("conservative", <<>>)>>}

FreshGames == {MonopolyGame(cfg, m) : cfg \in Rosters, m \in 0..MaxTurns}

\* The game of roster cfg after the recorded turns, its cap extra rounds away.
MidGame(cfg, turns, extra) ==
    Replay(MonopolyGame(cfg, (Len(turns) \div Len(cfg)) + extra),
           [i \in DOMAIN turns |-> Draw(turns[i])])

\* Player 1 has 28 left and stands seven steps before player 0's utility.
RentDueTurns ==
    <<<<1, 2, 0, 2, 0, 0>>, <<6, 3, 0, 2, 1, 0>>, <<6, 4, 0, 2, 0, 0>>,
      <<3, 6, 0, 2, 1, 0>>, <<2, 4, 0, 2, 0, 0>>, <<4, 1, 0, 2, 1, 0>>,
      <<4, 3, 0, 2, 0, 0>>, <<5, 4, 0, 2, 1, 0>>, <<1, 1, 0, 2, 0, 0>>,
      <<6, 1, 0, 2, 1, 0>>, <<1, 6, 0, 2, 0, 0>>, <<6, 1, 0, 2, 1, 0>>,
      <<5, 4, 0, 2, 0, 0>>, <<3, 2, 0, 2, 1, 0>>, <<2, 3, 0, 2, 0, 0>>,
      <<6, 4, 0, 2, 1, 0>>, <<5, 6, 0, 2, 0, 0>>>>

RentDueRoster == <<Config("aggressive", <<>>), Config("random", <<>>)>>

\* The hoarder, player 0, owns the brown group with three houses on each.
HoarderTurns ==
    <<<<1, 2, 0, 2, 0, 0>>, <<5, 3, 0, 2, 0, 0>>, <<3, 4, 0, 2, 0, 0>>,
      <<1, 1, 0, 2, 0, 0>>, <<4, 6, 0, 2, 0, 0>>, <<2, 1, 0, 2, 0, 0>>,
      <<5, 6, 0, 2, 0, 0>>, <<6, 6, 0, 2, 0, 0>>, <<5, 5, 0, 2, 0, 0>>,
      <<2, 3, 0, 2, 0, 0>>, <<2, 5, 0, 2, 0, 0>>, <<4, 3, 1, 2, 0, 0>>>>

HoarderRoster == <<Config("house_hoarder", <<>>), Config("random", <<>>)>>

\* Player 0 is in jail without a card and is the next to play, with 10 in
\* cash after 18 turns, and with 34 after one and after two more rounds in
\* which the player rolls no doubles.
JailedPoorTurns ==
    <<<<6, 3, 0, 2, 0, 0>>, <<3, 1, 0, 2, 0, 0>>, <<3, 3, 0, 2, 0, 0>>,
      <<4, 4, 0, 2, 0, 0>>, <<4, 2, 0, 2, 0, 0>>, <<2, 2, 0, 2, 0, 0>>,
      <<1, 1, 0, 2, 0, 0>>, <<5, 4, 0, 2, 0, 0>>, <<3, 3, 0, 2, 0, 0>>,
      <<1, 5, 0, 2, 0, 0>>, <<4, 4, 0, 2, 0, 0>>, <<2, 3, 1, 2, 0, 0>>,
      <<4, 1, 2, 2, 0, 0>>, <<3, 1, 0, 2, 0, 0>>, <<1, 1, 0, 2, 0, 0>>,
      <<2, 3, 0, 2, 0, 0>>, <<2, 1, 1, 2, 0, 0>>, <<4, 4, 0, 2, 0, 0>>,
      <<1, 2, 0, 2, 0, 0>>, <<1, 1, 0, 2, 0, 0>>, <<1, 2, 0, 2, 0, 0>>,
      <<1, 1, 0, 2, 0, 0>>>>

\* The recording cut before each of the jailed player's last turns in it.
JailedPoorPrefixes ==
    {SubSeq(JailedPoorTurns, 1, Len(JailedPoorTurns) - 2 * stuck) :
        stuck \in 0..(MaxJailTurns - 1)}

JailedPoorRoster == <<Config("aggressive", <<>>), Config("aggressive", <<>>)>>

\* Player 0 is in jail holding a get-out-of-jail card, and is the next to play.
JailedCardTurns ==
    <<<<1, 1, 3, 2, 0, 0>>, <<6, 1, 3, 2, 0, 0>>, <<4, 1, 1, 2, 0, 0>>,
      <<2, 3, 0, 2, 0, 0>>>>

\* Player 0 is in jail with 1500 in cash and no card, and is the next to play.
JailedRichTurns == <<<<3, 4, 1, 2, 0, 0>>, <<1, 2, 0, 2, 0, 0>>>>

\* Player 0 stands on position 36 with 80 in cash, and is the next to play.
TaxPoorTurns ==
    <<<<1, 3, 0, 2, 0, 0>>, <<4, 6, 0, 2, 0, 0>>, <<3, 4, 0, 2, 0, 0>>,
      <<6, 2, 0, 2, 0, 0>>, <<4, 6, 0, 2, 0, 0>>, <<3, 6, 0, 2, 0, 0>>,
      <<5, 4, 0, 2, 0, 0>>, <<6, 6, 0, 2, 0, 0>>, <<6, 3, 0, 2, 0, 0>>,
      <<3, 5, 1, 2, 0, 0>>, <<4, 3, 0, 2, 0, 0>>, <<3, 2, 0, 2, 0, 0>>,
      <<1, 4, 0, 2, 0, 0>>, <<6, 1, 1, 2, 0, 0>>, <<4, 1, 2, 2, 0, 0>>,
      <<2, 3, 0, 2, 0, 0>>>>

CautiousRoster == <<Config("aggressive", <<>>), Config("conservative", <<>>)>>

\* Player 0 is bankrupt and owns properties; player 1 is the next to play.
BankruptTurns ==
    <<<<2, 6, 0, 2, 0, 0>>, <<6, 2, 0, 2, 0, 0>>, <<2, 1, 0, 2, 0, 0>>,
      <<5, 6, 0, 2, 0, 0>>, <<6, 4, 0, 2, 0, 0>>, <<1, 3, 3, 2, 0, 0>>,
      <<4, 3, 0, 2, 0, 0>>, <<6, 6, 0, 2, 0, 0>>, <<2, 4, 0, 2, 0, 0>>,
      <<2, 6, 0, 2, 0, 0>>, <<5, 3, 0, 2, 0, 0>>, <<3, 5, 0, 2, 0, 0>>,
      <<1, 2, 0, 2, 0, 0>>, <<2, 5, 0, 2, 0, 0>>, <<4, 6, 0, 2, 0, 0>>,
      <<2, 5, 0, 2, 0, 0>>, <<3, 1, 0, 2, 0, 0>>, <<6, 5, 1, 2, 0, 0>>,
      <<1, 6, 0, 2, 0, 0>>, <<5, 4, 0, 2, 0, 0>>, <<1, 6, 0, 2, 0, 0>>,
      <<4, 2, 2, 2, 0, 0>>, <<4, 3, 0, 2, 0, 0>>, <<4, 5, 0, 2, 0, 0>>,
      <<2, 6, 0, 2, 0, 0>>>>

BankruptRoster ==
    <<Config("aggressive", <<>>), Config("conservative", <<>>), Config("aggressive", <<>>)>>

\* Player 0 owns the brown group with three houses on each street and has
\* 1490 in cash; two turns earlier the streets hold two houses and one, and
\* four turns earlier the player owns one of them and stands eight steps
\* before the other.
DeveloperTurns ==
    <<<<2, 1, 0, 2, 0, 0>>, <<4, 5, 0, 2, 0, 0>>, <<6, 2, 0, 2, 0, 0>>,
      <<4, 6, 0, 2, 0, 0>>, <<5, 6, 3, 2, 0, 0>>, <<5, 2, 0, 2, 0, 0>>,
      <<5, 6, 1, 2, 0, 0>>, <<6, 4, 0, 2, 0, 0>>, <<6, 2, 0, 2, 0, 0>>,
      <<6, 2, 0, 2, 0, 0>>, <<6, 4, 0, 2, 0, 0>>, <<1, 5, 0, 2, 0, 0>>>>

\* The recording cut before each of the developer's last turns in it.
DeveloperPrefixes ==
    {SubSeq(DeveloperTurns, 1, Len(DeveloperTurns) - 2 * earlier) : earlier \in 0..2}

DeveloperRoster == <<Config("aggressive", <<>>), Config("random", <<>>)>>

\* Player 2 is bankrupt with 576 in cash and five properties; player 0 is
\* the next to play, a round before the cap.
SkippedTurns ==
    <<<<5, 5, 0, 2, 0, 0>>, <<5, 4, 0, 2, 0, 0>>, <<5, 1, 0, 2, 0, 0>>,
      <<4, 3, 1, 2, 0, 0>>, <<1, 4, 0, 2, 0, 0>>, <<3, 3, 0, 2, 0, 0>>,
      <<6, 5, 0, 2, 0, 0>>, <<3, 5, 1, 2, 0, 0>>, <<1, 6, 0, 2, 0, 0>>,
      <<4, 5, 0, 2, 0, 0>>, <<6, 5, 0, 2, 0, 0>>, <<3, 3, 0, 2, 0, 0>>,
      <<1, 1, 0, 2, 0, 0>>, <<6, 1, 0, 3, 0, 0>>, <<3, 1, 0, 2, 0, 0>>,
      <<4, 3, 0, 2, 0, 0>>, <<1, 3, 0, 2, 0, 0>>, <<6, 4, 0, 2, 0, 0>>>>

\* The recordings, each with the roster that played it.
Recordings ==
    {<<RentDueRoster, RentDueTurns>>, <<HoarderRoster, HoarderTurns>>,
     <<CautiousRoster, JailedCardTurns>>, <<CautiousRoster, JailedRichTurns>>,
     <<CautiousRoster, TaxPoorTurns>>,
     <<BankruptRoster, BankruptTurns>>, <<BankruptRoster, SkippedTurns>>}
        \cup {<<JailedPoorRoster, turns>> : turns \in JailedPoorPrefixes}
        \cup {<<DeveloperRoster, turns>> : turns \in DeveloperPrefixes}

MidGames == {MidGame(rec[1], rec[2], extra) : rec \in Recordings, extra \in 1..ExtraRounds}

GameStarts == FreshGames \cup MidGames

Init ==
    /\ \E g \in GameStarts : Starts(g)
    /\ pc = "turn"
    /\ total_roll = 0
    /\ development_attempts = 0
    /\ ret = "None"

Spec == Init /\ [][Next]_vars

-----------------------------------------------------------------------------
(* The game with handle_development_phase followed through the passes of   *)
(* its loop.                                                               *)

\* The outcomes of the RANDOM strategy's coin where the loop test draws it.
DevelopCoinsAt(g, p, attempts) ==
    IF /\ g.strategy[p] = "random"
       /\ get_developable_properties(g, p) # <<>>
       /\ attempts < MaxDevelopmentsPerTurn
    THEN BOOLEAN ELSE {FALSE}

\* One pass of the loop: the test holds; a successful build goes back to
\* the test, a failed one or a None target breaks out.
DevelopmentPass ==
    /\ pc = "develop"
    /\ ~is_bankrupt[player]
    /\ \E coin \in DevelopCoinsAt(G, player, development_attempts) :
          development_continues(G, player, development_attempts, coin)
    /\ IF development_success(G, player)
       THEN /\ Becomes(development_build(G, player))
            /\ development_attempts' = development_attempts + 1
            /\ pc' = "develop"
       ELSE /\ Becomes(development_build(G, player))
            /\ development_attempts' = 0
            /\ pc' = "next"
    /\ UNCHANGED <<total_roll, ret>>

\* The phase is over: the player is bankrupt, or the test of the loop fails.
DevelopmentReturn ==
    /\ pc = "develop"
    /\ \/ is_bankrupt[player]
       \/ \E coin \in DevelopCoinsAt(G, player, development_attempts) :
             ~development_continues(G, player, development_attempts, coin)
    /\ Becomes(G)
    /\ development_attempts' = 0
    /\ pc' = "next"
    /\ UNCHANGED <<total_roll, ret>>

NextDevelop ==
    \/ PlayTurn
    \/ Move
    \/ HandleSpecialSpaces
    \/ HandlePropertyLanding
    \/ DevelopmentPass
    \/ DevelopmentReturn
    \/ NextPlayer

SpecDevelop == Init /\ [][NextDevelop]_vars

-----------------------------------------------------------------------------
(* The board, driven by direct calls of its operations.                    *)

\* A call of a public operation: <<name, argument, argument>>.
BoardCall(g, c) ==
    CASE c[1] = "buy_property" -> buy_property(g, c[2], c[3])
      [] c[1] = "build_house"  -> build_house(g, c[2], c[3])
      [] c[1] = "build_hotel"  -> build_hotel(g, c[2], c[3])
      [] c[1] = "pay"          -> pay(g, c[2], c[3])
      [] c[1] = "receive"      -> receive(g, c[2], c[3])

\* The state after the calls, made in order: the first half of them, then
\* the rest.
RECURSIVE Staged(_, _)
Staged(g, calls) ==
    IF calls = <<>> THEN g
    ELSE IF Len(calls) = 1 THEN BoardCall(g, calls[1])
    ELSE LET half == Len(calls) \div 2
         IN  Then(Staged(g, SubSeq(calls, 1, half)),
                  LAMBDA after : Staged(after, SubSeq(calls, half + 1, Len(calls))))

\* Player p buys the streets, then builds on them in rounds, one level a
\* round, up to levels[i] on streets[i] (5 is a hotel).
BuyCalls(streets, p) == [i \in DOMAIN streets |-> <<"buy_property", streets[i], p>>]

RECURSIVE BuildCalls(_, _, _, _)
BuildCalls(streets, levels, p, round) ==
    IF round > 5 THEN <<>>
    ELSE LET due == SelectSeq([i \in DOMAIN streets |-> <<streets[i], levels[i]>>],
                              LAMBDA sl : sl[2] >= round)
         IN  [i \in DOMAIN due |->
                 <<IF round = 5 THEN "build_hotel" ELSE "build_house", due[i][1], p>>]
             \o BuildCalls(streets, levels, p, round + 1)

TwoPlayers == <<Config("aggressive", <<>>), Config("random", <<>>)>>

\* Player 1 is left with the price of the two brown streets, or with that
\* and the cost of one house.
LowCash(spent) == Staged(MonopolyGame(TwoPlayers, 1), <<<<"pay", 1, spent>>>>)

\* Seven houses are left in the pool.
FewHouses ==
    Staged(MonopolyGame(TwoPlayers, 1),
           <<<<"receive", 0, 2400>>>>
           \o BuyCalls(<<6, 8, 9>>, 0) \o BuildCalls(<<6, 8, 9>>, <<4, 4, 4>>, 0, 1)
           \o BuyCalls(<<11, 13, 14>>, 0) \o BuildCalls(<<11, 13, 14>>, <<4, 4, 4>>, 0, 1)
           \o BuyCalls(<<16, 18, 19>>, 0) \o BuildCalls(<<16, 18, 19>>, <<1, 0, 0>>, 0, 1))

\* One hotel is left in the pool.
FewHotels ==
    Staged(MonopolyGame(TwoPlayers, 1),
           <<<<"receive", 0, 7000>>>>
           \o BuyCalls(<<6, 8, 9>>, 0) \o BuildCalls(<<6, 8, 9>>, <<5, 5, 5>>, 0, 1)
           \o BuyCalls(<<11, 13, 14>>, 0) \o BuildCalls(<<11, 13, 14>>, <<5, 5, 5>>, 0, 1)
           \o BuyCalls(<<16, 18, 19>>, 0) \o BuildCalls(<<16, 18, 19>>, <<5, 5, 5>>, 0, 1)
           \o BuyCalls(<<21, 23, 24>>, 0) \o BuildCalls(<<21, 23, 24>>, <<5, 5, 4>>, 0, 1))

\* The last start is a game some turns in, its board as the turns left it.
BoardStarts ==
    {MonopolyGame(TwoPlayers, 1), LowCash(1380), LowCash(1330), FewHouses, FewHotels,
     MidGame(HoarderRoster, HoarderTurns, 1)}

\* The positions the calls are made on: the brown group, a railroad, and
\* GO, which holds no property.
Lots == {0, 1, 3, 5}

Returned(b) == IF b THEN "True" ELSE "False"

BuyProperty(pos, p) ==
    /\ Becomes(buy_property(G, pos, p))
    /\ ret' = Returned(buy_property_ok(G, pos, p))
    /\ UNCHANGED <<pc, total_roll, development_attempts>>

BuildHouse(pos, p) ==
    /\ IF can_build_houses_raises(G, create_board[pos].color_group, p)
       THEN Becomes(G) /\ ret' = "ValueError"
       ELSE Becomes(build_house(G, pos, p)) /\ ret' = Returned(build_house_ok(G, pos, p))
    /\ UNCHANGED <<pc, total_roll, development_attempts>>

BuildHotel(pos, p) ==
    /\ Becomes(build_hotel(G, pos, p))
    /\ ret' = Returned(build_hotel_ok(G, pos, p))
    /\ UNCHANGED <<pc, total_roll, development_attempts>>

InitBoard ==
    /\ \E g \in BoardStarts : Starts(g)
    /\ pc = "turn"
    /\ total_roll = 0
    /\ development_attempts = 0
    /\ ret = "None"

NextBoard ==
    \/ \E pos \in Lots, p \in DOMAIN money : BuyProperty(pos, p)
    \/ \E pos \in Lots \cap PropPositions, p \in DOMAIN money : BuildHouse(pos, p)
    \/ \E pos \in Lots \cap PropPositions, p \in DOMAIN money : BuildHotel(pos, p)

SpecBoard == InitBoard /\ [][NextBoard]_vars

-----------------------------------------------------------------------------
(* A player, driven by direct calls of move.                               *)

\* The largest number of steps of a call, and the number of salaries a
\* player collects before the calls stop.
MaxSteps == 12
MaxLaps == 3

MoveCall(steps) ==
    /\ money[0] < StartMoney + MaxLaps * GoSalary
    /\ Becomes(move(G, 0, steps))
    /\ ret' = Returned(move_passed_go(G, 0, steps))
    /\ UNCHANGED <<pc, total_roll, development_attempts>>

InitMove ==
    /\ Starts(MonopolyGame(<<Config("random", <<>>)>>, 1))
    /\ pc = "turn"
    /\ total_roll = 0
    /\ development_attempts = 0
    /\ ret = "None"

NextMove == \E steps \in 1..MaxSteps : MoveCall(steps)

SpecMove == InitMove /\ [][NextMove]_vars

-----------------------------------------------------------------------------
(* The streets of one color group, bought by a player who then builds on   *)
(* them: every level of every street of the catalog is reached.            *)

ColorGroups ==
    {create_board[pos].color_group :
        pos \in {q \in PropPositions : create_board[q].property_type = "street"}}

RECURSIVE Ascending(_)
\* The positions of S in the order of the board.
Ascending(S) == IF S = {} THEN <<>> ELSE <<MinOf(S)>> \o Ascending(S \ {MinOf(S)})

StreetsOf(color_group) ==
    Ascending({pos \in PropPositions : create_board[pos].color_group = color_group})

\* Player 0 has received 5000 and bought the streets of the group.
GroupOwned(color_group) ==
    Staged(MonopolyGame(TwoPlayers, 1),
           <<<<"receive", 0, 5000>>>> \o BuyCalls(StreetsOf(color_group), 0))

InitRent ==
    /\ \E color_group \in ColorGroups : Starts(GroupOwned(color_group))
    /\ pc = "turn"
    /\ total_roll = 0
    /\ development_attempts = 0
    /\ ret = "None"

NextRent ==
    \/ \E i \in DOMAIN properties[0] : BuildHouse(properties[0][i], 0)
    \/ \E i \in DOMAIN properties[0] : BuildHotel(properties[0][i], 0)

SpecRent == InitRent /\ [][NextRent]_vars

-----------------------------------------------------------------------------
(* The board's contract (SpecBoard).                                       *)

BoardPlayers == DOMAIN money
BoardLots == Lots \cap PropPositions

RECURSIVE HousesOn(_)
\* The houses standing on the properties of S, a hotel counting as none.
HousesOn(S) ==
    IF S = {} THEN 0
    ELSE LET pos == CHOOSE pos \in S : TRUE
         IN  (IF houses[pos] \in 1..4 THEN houses[pos] ELSE 0) + HousesOn(S \ {pos})

\* C1: the houses standing on the board (levels 1..4, a hotel counting as
\* no house) plus houses_remaining are 32, after any sequence of build_house
\* and build_hotel calls, successful or not.
C1_HousesConserved == HousesOn(PropPositions) + houses_remaining = 32

\* A hotel was just built beside a street that still carries houses.
C1_Witness ==
    /\ ret = "True"
    /\ \E pos \in BoardLots : houses[pos] = 5
    /\ \E pos \in BoardLots : houses[pos] \in 1..4

\* C2: neither pool is ever negative or above its size:
\* 0 <= houses_remaining <= 32 and 0 <= hotels_remaining <= 12.
C2_PoolsInRange ==
    /\ 0 <= houses_remaining /\ houses_remaining <= 32
    /\ 0 <= hotels_remaining /\ hotels_remaining <= 12

\* A build was refused with the house pool empty, on a street below four
\* houses whose owner could pay.
C2_Witness ==
    /\ houses_remaining = 0
    /\ ret = "False"
    /\ \E pos \in BoardLots :
          /\ houses[pos] < 4
          /\ property_owners[pos] # None
          /\ money[property_owners[pos]] >= create_board[pos].house_cost

\* C3: a successful build_hotel raises houses_remaining by 4, lowers
\* hotels_remaining by 1, sets the level to 5 and debits the house_cost; it
\* succeeds only at level 4 with a hotel left and the cost in hand; a failed
\* one changes no pool, no level and no cash.
C3_BuildHotelContract ==
    [][\A pos \in BoardLots, p \in BoardPlayers :
          BuildHotel(pos, p) =>
              /\ ret' = "True" =>
                    /\ houses[pos] = 4
                    /\ hotels_remaining > 0
                    /\ money[p] >= create_board[pos].house_cost
                    /\ houses_remaining' = houses_remaining + 4
                    /\ hotels_remaining' = hotels_remaining - 1
                    /\ houses' = [houses EXCEPT ![pos] = 5]
                    /\ money' = [money EXCEPT ![p] = @ - create_board[pos].house_cost]
              /\ ret' # "True" =>
                    UNCHANGED <<houses_remaining, hotels_remaining, houses, money>>]_vars

\* The last hotel of the pool was just built.
C3_Witness ==
    /\ ret = "True"
    /\ hotels_remaining = 0
    /\ houses[1] = 5
    /\ houses[3] = 4

\* The streets of the color group of pos.
GroupOf(pos) ==
    {q \in PropPositions : /\ create_board[q].color_group = create_board[pos].color_group
                           /\ create_board[q].property_type = "street"}

\* C4: build_house never succeeds when, after the build, the highest and the
\* lowest level of the color group differ by more than 1, whichever property
\* of a fully owned group it is called on.
C4_EvenAfterBuild ==
    [][\A pos \in BoardLots, p \in BoardPlayers :
          (BuildHouse(pos, p) /\ ret' = "True") =>
              \A q, r \in GroupOf(pos) : houses'[q] - houses'[r] <= 1]_vars

\* C5: buy_property succeeds only on an unowned property with cash >= price;
\* it then debits the price, records the owner and adds the property to the
\* holdings; it never leaves cash negative; when it fails, cash, the owner
\* map and all holdings are unchanged.
C5_BuyPropertyContract ==
    [][\A pos \in Lots, p \in BoardPlayers :
          BuyProperty(pos, p) =>
              /\ ret' = "True" =>
                    /\ pos \in PropPositions
                    /\ property_owners[pos] = None
                    /\ money[p] >= create_board[pos].price
                    /\ money' = [money EXCEPT ![p] = @ - create_board[pos].price]
                    /\ property_owners' = [property_owners EXCEPT ![pos] = p]
                    /\ properties' = [properties EXCEPT ![p] = Append(@, pos)]
              /\ ret' # "True" => UNCHANGED <<money, property_owners, properties>>
              /\ money'[p] >= 0]_vars

\* Player 1 bought Baltic Avenue with exactly its price in hand.
C5_Witness ==
    /\ ret = "True"
    /\ property_owners[3] = 1
    /\ money[1] = 0

-----------------------------------------------------------------------------
(* The game's contract (Spec).                                             *)

\* C6: for every roster and every max_turns >= 0, whatever is rolled, drawn
\* and flipped, play_game ends and turn_count never exceeds max_turns.
C6_TurnCountWithinCap == turn_count <= max_turns

\* C7: when next_player has run and exactly one player is not bankrupt, the
\* game is over and that player is the winner, whatever the net worths and
\* whether or not the turn cap was reached at the same boundary.
C7_SoleSurvivorWins ==
    [][(pc' = "turn" /\ Cardinality({p \in DOMAIN money : ~is_bankrupt'[p]}) = 1) =>
          /\ game_over'
          /\ winner' \in DOMAIN money
          /\ ~is_bankrupt'[winner']]_vars

\* The survivor has won at the turn cap, the bankrupt player being worth more.
C7_Witness ==
    /\ Cardinality(DOMAIN money) = 2
    /\ game_over
    /\ turn_count >= max_turns
    /\ winner = 0
    /\ is_bankrupt[1]
    /\ net_worth(G, 1) > net_worth(G, 0)

\* C8: when the game ends at the turn cap with two or more players not
\* bankrupt, the winner is the player of greatest net worth (cash plus the
\* list prices of the properties owned), the earliest in the roster among
\* those of equal greatest net worth.
C8_RichestWinsAtCap ==
    (game_over /\ Cardinality({p \in DOMAIN money : ~is_bankrupt[p]}) >= 2) =>
        /\ turn_count >= max_turns
        /\ winner \in DOMAIN money
        /\ \A q \in DOMAIN money :
              /\ money[q] + SumSeq([i \in DOMAIN properties[q] |->
                                       create_board[properties[q][i]].price])
                    <= money[winner] + SumSeq([i \in DOMAIN properties[winner] |->
                                                 create_board[properties[winner][i]].price])
              /\ q < winner =>
                    money[q] + SumSeq([i \in DOMAIN properties[q] |->
                                          create_board[properties[q][i]].price])
                       < money[winner] + SumSeq([i \in DOMAIN properties[winner] |->
                                                   create_board[properties[winner][i]].price])

\* The game ended at the cap with nobody bankrupt; the second player won,
\* worth more than the first and as much as the third.
C8_Witness ==
    /\ game_over
    /\ \A p \in DOMAIN money : ~is_bankrupt[p]
    /\ Cardinality(DOMAIN money) = 3
    /\ winner = 1
    /\ properties[1] # <<>>
    /\ net_worth(G, 1) = net_worth(G, 2)

\* C9: no property of a HOUSE_HOARDER player carries a hotel; for that
\* strategy choose_property_to_develop returns only candidates below four
\* houses, and None when every candidate has four, hotels and cash or not.
C9_HoarderBuildsNoHotel ==
    \A p \in DOMAIN money :
        strategy[p] = "house_hoarder" =>
            /\ \A i \in DOMAIN properties[p] : houses[properties[p][i]] # 5
            /\ LET developable == get_developable_properties(G, p)
                   chosen == choose_property_to_develop(G, p, developable)
               IN  developable # <<>> =>
                      /\ chosen # None => houses[chosen] < 4
                      /\ (\A i \in DOMAIN developable : houses[developable[i]] = 4) =>
                            chosen = None

\* The hoarder's development phase has ended with four houses on every
\* street that can be developed, hotels in the pool and the cost in hand.
C9_Witness ==
    /\ pc = "next"
    /\ strategy[player] = "house_hoarder"
    /\ hotels_remaining > 0
    /\ LET developable == get_developable_properties(G, player)
       IN  /\ developable # <<>>
           /\ \A i \in DOMAIN developable :
                 /\ houses[developable[i]] = 4
                 /\ money[player] >= create_board[developable[i]].house_cost

\* The rents that can be due on the space the current player stands on.
RentsDue ==
    {calculate_rent(G, property_owners[position[player]], position[player], dice_roll) :
        dice_roll \in UtilityRollsAt(G, player, position[player])}

\* C10: landing on a property of another player who is not bankrupt, rent r
\* due: with cash >= r (cash = r too) the payer's cash falls by r, the
\* owner's rises by r and the payer is not bankrupt; with cash < r the payer
\* is bankrupt and no cash changes.
C10_RentSettled ==
    [][(/\ HandlePropertyLanding
        /\ ~is_bankrupt[player]
        /\ rent_is_due(G, player, position[player])) =>
          LET owner == property_owners[position[player]] IN
          \E r \in RentsDue :
              IF money[player] >= r
              THEN /\ money' = [money EXCEPT ![player] = @ - r, ![owner] = @ + r]
                   /\ ~is_bankrupt'[player]
              ELSE /\ is_bankrupt'[player]
                   /\ money' = money]_vars

\* The payer has just paid a rent equal to all the cash held.
C10_Witness ==
    /\ pc = "develop"
    /\ rent_is_due(G, player, position[player])
    /\ money[player] = 0
    /\ ~is_bankrupt[player]

\* C11: every player's cash is >= 0 in every reachable state: no rent, tax,
\* card, jail fee, purchase or build leaves a balance negative.
C11_CashNeverNegative == \A p \in DOMAIN money : money[p] >= 0

\* A rent larger than the payer's cash has just been refused: the payer is
\* bankrupt and keeps the cash.
C11_Witness ==
    /\ pc = "develop"
    /\ is_bankrupt[player]
    /\ position[player] \in PropPositions
    /\ property_owners[position[player]] \notin {None, player}
    /\ money[player] > 0

\* C12: a jailed player without a card who rolls no doubles and has less
\* than 50 stays in jail, not bankrupt, on the first and the second such
\* turn in a row and is bankrupt on the third; jail_turns counts the turns
\* in a row ended still in jail, and no player not bankrupt has more than two.
C12_BankruptOnThirdJailTurn ==
    [][/\ \A p \in DOMAIN money :
            /\ (in_jail[p] /\ in_jail'[p] /\ ~is_bankrupt[p]) =>
                  \/ /\ jail_turns'[p] = jail_turns[p]
                     /\ is_bankrupt'[p] = is_bankrupt[p]
                  \/ /\ PlayTurn /\ p = player
                     /\ get_out_of_jail_cards[p] = 0 /\ money[p] < JailFee
                     /\ jail_turns'[p] = jail_turns[p] + 1
                     /\ is_bankrupt'[p] = (jail_turns[p] = 2)
            /\ ~is_bankrupt'[p] => jail_turns'[p] <= 2
            /\ ~in_jail'[p] => jail_turns'[p] = 0
       /\ (/\ PlayTurn /\ ~is_bankrupt[player] /\ in_jail[player]
           /\ get_out_of_jail_cards[player] = 0 /\ money[player] < JailFee
           /\ pc' = "turn") =>
              /\ in_jail'[player]
              /\ jail_turns'[player] = jail_turns[player] + 1
              /\ is_bankrupt'[player] = (jail_turns[player] = 2)]_vars

\* The third turn in a row has left the player bankrupt, in jail.
C12_Witness ==
    \E p \in DOMAIN money :
        /\ is_bankrupt[p]
        /\ in_jail[p]
        /\ jail_turns[p] = 3
        /\ money[p] < JailFee

\* C13: move(steps) sets the position to (old position + steps) mod 40 and
\* credits exactly 200 if and only if old position + steps >= 40, whether or
\* not the player lands on position 0; otherwise the cash is unchanged.
C13_MoveWrapsAndPays ==
    [][\A steps \in 1..MaxSteps :
          MoveCall(steps) =>
              /\ position'[0] = (position[0] + steps) % 40
              /\ money'[0] = IF position[0] + steps >= 40 THEN money[0] + 200 ELSE money[0]
              /\ ret' = (IF position[0] + steps >= 40 THEN "True" ELSE "False")]_vars

\* The player has passed GO once without landing on it.
C13_Witness ==
    /\ ret = "True"
    /\ position[0] \in 1..11
    /\ money[0] = StartMoney + GoSalary

\* C14: bankruptcy is terminal: once is_bankrupt is true it stays true, and
\* from then on the player's cash, position, holdings and jail state never
\* change: no further turn, no rent received, nothing from a pay-each-player
\* card.
C14_BankruptcyIsTerminal ==
    [][\A p \in DOMAIN money :
          is_bankrupt[p] =>
              /\ is_bankrupt'[p]
              /\ money'[p] = money[p]
              /\ position'[p] = position[p]
              /\ properties'[p] = properties[p]
              /\ in_jail'[p] = in_jail[p]
              /\ jail_turns'[p] = jail_turns[p]
              /\ get_out_of_jail_cards'[p] = get_out_of_jail_cards[p]
              /\ (PlayTurn /\ p = player) => pc' = "turn"]_vars

\* A player has landed on a property of a bankrupt player, and the game
\* goes on.
C14_Witness ==
    /\ pc = "develop"
    /\ ~is_bankrupt[player]
    /\ ~game_over
    /\ position[player] \in PropPositions
    /\ property_owners[position[player]] \notin {None, player}
    /\ is_bankrupt[property_owners[position[player]]]

\* C15: no property is in the holdings of two players, none is twice in one
\* player's holdings, and property_owners maps a position to player p if
\* and only if the property there is in p's holdings.
C15_HoldingsMatchLedger ==
    /\ \A p, q \in DOMAIN money :
          p # q => {properties[p][i] : i \in DOMAIN properties[p]}
                      \cap {properties[q][i] : i \in DOMAIN properties[q]} = {}
    /\ \A p \in DOMAIN money :
          \A i, j \in DOMAIN properties[p] : properties[p][i] = properties[p][j] => i = j
    /\ \A pos \in PropPositions, p \in DOMAIN money :
          property_owners[pos] = p <=> \E i \in DOMAIN properties[p] : properties[p][i] = pos
    /\ \A pos \in PropPositions : property_owners[pos] \in DOMAIN money \cup {None}

\* The player has just bought the property landed on, in a game where
\* every player holds two properties or more.
C15_Witness ==
    /\ pc = "develop"
    /\ \A p \in DOMAIN money : Len(properties[p]) >= 2
    /\ properties[player][Len(properties[player])] = position[player]
    /\ property_owners[position[player]] = player

\* C16: for every property of the catalog current_rent does not decrease as
\* the development level rises through the levels 0..5 the property reaches.
C16_RentNeverFalls ==
    [][\A pos \in PropPositions :
          houses'[pos] >= houses[pos] =>
              current_rent(pos, houses'[pos]) >= current_rent(pos, houses[pos])]_vars

\* A hotel has just been built on Boardwalk.
C16_Witness ==
    /\ ret = "True"
    /\ houses[39] = 5
    /\ houses[37] = 4

\* C17: at the start of a jailed player's turn, a card held is consumed
\* (exactly one) and no fee is charged, doubles or not; without a card,
\* doubles release the player with no fee; without either, the fee of 50 is
\* charged if cash >= 50; no fee in a turn with a card consumed or doubles.
C17_JailReleasePriority ==
    [][\A die1, die2 \in DieFaces :
          (/\ PlayTurn
           /\ ~is_bankrupt[player]
           /\ in_jail[player]
           /\ Rolled(die1, die2)) =>
              IF get_out_of_jail_cards[player] > 0
              THEN /\ get_out_of_jail_cards' =
                         [get_out_of_jail_cards EXCEPT ![player] = @ - 1]
                   /\ money' = money
                   /\ ~in_jail'[player]
              ELSE /\ get_out_of_jail_cards' = get_out_of_jail_cards
                   /\ IF die1 = die2
                      THEN money' = money /\ ~in_jail'[player]
                      ELSE IF money[player] >= 50
                      THEN /\ money' = [money EXCEPT ![player] = @ - 50]
                           /\ ~in_jail'[player]
                      ELSE money' = money /\ in_jail'[player]]_vars

\* The jailed player held one card and 1500 (the game where the other
\* player stands on position 12) and has rolled two sixes: the card is gone,
\* the cash is not.
C17_Witness ==
    /\ pc = "move"
    /\ Cardinality(DOMAIN money) = 2
    /\ player = 0
    /\ position[1] = 12
    /\ total_roll = 12
    /\ position[player] = 10
    /\ ~in_jail[player]
    /\ get_out_of_jail_cards[player] = 0
    /\ money[player] = 1500
    /\ properties[player] = <<>>

\* C18: a turn in which a jailed player is not released (no card, no
\* doubles, cash < 50, counter below 3 after the increment) changes only that
\* player's jail_turns and the turn pointer: positions, cash, holdings,
\* cards, levels, the owner map and both pools are unchanged and the turn
\* ends there; a player released in a turn moves by that roll's total in
\* that turn.
C18_StuckTurnChangesNothingElse ==
    [][/\ \A die1, die2 \in DieFaces :
            /\ (/\ PlayTurn /\ Rolled(die1, die2)
                /\ ~is_bankrupt[player] /\ in_jail[player]
                /\ get_out_of_jail_cards[player] = 0
                /\ die1 # die2
                /\ money[player] < 50
                /\ jail_turns[player] + 1 < 3) =>
                  /\ jail_turns' = [jail_turns EXCEPT ![player] = @ + 1]
                  /\ pc' = "turn"
                  /\ UNCHANGED <<position, money, properties, get_out_of_jail_cards,
                                 in_jail, is_bankrupt, houses, property_owners,
                                 houses_remaining, hotels_remaining>>
            /\ (/\ PlayTurn /\ Rolled(die1, die2)
                /\ ~is_bankrupt[player] /\ in_jail[player]
                /\ ~in_jail'[player]) =>
                  /\ pc' = "move"
                  /\ total_roll' = die1 + die2
                  /\ UNCHANGED <<position, current_player_index>>
       /\ Move => /\ position'[player] = (position[player] + total_roll) % 40
                  /\ UNCHANGED current_player_index]_vars

\* Player 0, in jail with 10 in cash, has ended a first turn there.
C18_Witness ==
    /\ pc = "turn"
    /\ Cardinality(DOMAIN money) = 2
    /\ current_player_index = 1
    /\ in_jail[0]
    /\ ~is_bankrupt[0]
    /\ jail_turns[0] = 1
    /\ money[0] = 10

\* C19: landing on Income Tax (position 4, fee 200) or Luxury Tax (position
\* 38, fee 100) debits exactly the fee when cash >= fee; when cash < fee the
\* cash is unchanged, the player is not marked bankrupt, and the turn goes
\* on to the development phase.
C19_TaxAllOrNothing ==
    [][/\ (HandleSpecialSpaces /\ position[player] \in {4, 38}) =>
             LET fee == IF position[player] = 4 THEN 200 ELSE 100 IN
             /\ money' = IF money[player] >= fee
                         THEN [money EXCEPT ![player] = @ - fee]
                         ELSE money
             /\ ~is_bankrupt'[player]
             /\ position'[player] = position[player]
             /\ pc' = "landing"
       /\ (HandlePropertyLanding /\ position[player] \in {4, 38}) =>
             /\ money' = money
             /\ ~is_bankrupt'[player]
             /\ pc' = "develop"]_vars

\* The player stands on Luxury Tax with less than the fee, the tax and the
\* landing behind, the development phase ahead.
C19_Witness ==
    /\ pc = "develop"
    /\ position[player] = 38
    /\ money[player] < 100
    /\ ~is_bankrupt[player]

\* C20: when the Chance card 'Pay each player $50' is applied, every other
\* player not bankrupt receives 50, the drawing player is debited 50 times
\* the number of those players, bankrupt players receive nothing, and the
\* sum of all players' cash is unchanged.
C20_PayEachPlayer ==
    [][(/\ HandleSpecialSpaces
        /\ position[player] \in ChancePositions
        /\ Becomes(draw_chance(G, player, 2))) =>
          LET others == {q \in DOMAIN money : q # player /\ ~is_bankrupt[q]} IN
          /\ money' = [q \in DOMAIN money |->
                          IF q = player THEN money[q] - 50 * Cardinality(others)
                          ELSE IF q \in others THEN money[q] + 50
                          ELSE money[q]]
          /\ SumSeq([q \in 1..Cardinality(DOMAIN money) |-> money'[q - 1]])
                = SumSeq([q \in 1..Cardinality(DOMAIN money) |-> money[q - 1]])]_vars

\* The cash a strategy's develop gate asks the player to exceed.
DevelopGate(strat) ==
    CASE strat = "aggressive"    -> 500
      [] strat = "conservative"  -> 1000
      [] strat = "color_focused" -> 300
      [] strat = "house_hoarder" -> 200
      [] OTHER                   -> 400

\* C21: in one turn's development phase at most 3 builds succeed, each one
\* level on one property of the acting player, who is not bankrupt and whose
\* cash before the build exceeds the strategy's gate; a pass of the phase
\* that builds nothing (a failed build, a None target, a failed test) ends
\* the phase; nothing is built outside the phase.
C21_DevelopmentBounded ==
    [][LET built == {pos \in PropPositions : houses'[pos] # houses[pos]} IN
       /\ development_attempts <= 3
       /\ pc # "develop" => built = {} /\ development_attempts = 0
       /\ (pc = "develop" /\ built = {}) => pc' = "next"
       /\ built # {} =>
             /\ ~is_bankrupt[player]
             /\ development_attempts < 3
             /\ development_attempts' = development_attempts + 1
             /\ money[player] > DevelopGate(strategy[player])
             /\ Cardinality(built) = 1
             /\ \A pos \in built :
                   /\ property_owners[pos] = player
                   /\ \E i \in DOMAIN properties[player] : properties[player][i] = pos
                   /\ houses'[pos] = houses[pos] + 1]_vars

\* Three builds of the turn have succeeded and the phase is at its test.
C21_Witness ==
    /\ pc = "develop"
    /\ development_attempts = 3
    /\ ~is_bankrupt[player]
    /\ get_developable_properties(G, player) # <<>>
    /\ money[player] > DevelopGate(strategy[player])

\* C22: every call of play_turn on a game not over moves
\* current_player_index on by exactly 1 modulo the roster size, on the
\* bankrupt skip, the two returns of the jail block and the normal turn, and
\* turn_count grows by exactly 1 when the index wraps to 0 and not at all
\* otherwise; within a call neither changes before the call ends.
C22_RosterOrder ==
    [][LET N == Cardinality(DOMAIN money) IN
       IF pc' = "turn"
       THEN /\ ~game_over
            /\ current_player_index' = (current_player_index + 1) % N
            /\ turn_count' = turn_count + (IF current_player_index' = 0 THEN 1 ELSE 0)
       ELSE UNCHANGED <<current_player_index, turn_count>>]_vars

\* A bankrupt player's turn has been skipped and the index has wrapped.
C22_Witness ==
    /\ pc = "turn"
    /\ Cardinality(DOMAIN money) = 3
    /\ is_bankrupt[2]
    /\ ~is_bankrupt[0]
    /\ ~is_bankrupt[1]
    /\ current_player_index = 0
    /\ turn_count = max_turns

\* C23: in every state of a game that is over, the winner is set and is not
\* a bankrupt player, whether the game ended on the last player standing or
\* on the turn cap.
C23_WinnerNotBankrupt ==
    game_over => (winner # None /\ ~is_bankrupt[winner])

\* C24: in every state of a game driven by play_turn, the development
\* levels (a hotel is 5) of the streets of a color group owned whole by one
\* player differ by at most 1.
C24_EvenDevelopment ==
    \A color_group \in ColorGroups :
        LET streets == {pos \in PropPositions :
                           create_board[pos].color_group = color_group}
        IN  (\E p \in DOMAIN money : \A pos \in streets : property_owners[pos] = p) =>
                \A pos \in streets, other \in streets : houses[pos] - houses[other] <= 1

\* C25: between two calls of play_turn, every player who is not in jail has
\* jail_turns = 0, however the player left jail.
C25_CountStartsAtZero ==
    pc = "turn" => \A p \in DOMAIN money : ~in_jail[p] => jail_turns[p] = 0

\* The player who began the last round of the recorded game in jail, two
\* stuck turns counted, has left jail and ended the turn.
C25_Witness ==
    /\ pc = "turn"
    /\ Cardinality(DOMAIN money) = 2
    /\ strategy[1] = "aggressive"
    /\ max_turns = (Len(JailedPoorTurns) \div 2) + 1
    /\ current_player_index = 1
    /\ ~in_jail[0]
    /\ ~is_bankrupt[0]
    /\ jail_turns[0] = 0

\* C26: between two calls of play_turn every player stands on a position
\* in 0..39, none on position 30 (Go To Jail), and every player in jail
\* stands on position 10.
C26_PositionsAtTurnBoundary ==
    pc = "turn" =>
        \A p \in DOMAIN money :
            /\ position[p] \in 0..39
            /\ position[p] # 30
            /\ in_jail[p] => position[p] = 10

\* Player 1 of the recorded game, nine steps before Go To Jail and out of
\* reach of every Chance space, has ended the turn in jail.
C26_Witness ==
    /\ pc = "turn"
    /\ Cardinality(DOMAIN money) = 2
    /\ strategy[1] = "random"
    /\ max_turns = (Len(RentDueTurns) \div 2) + 1
    /\ in_jail[1]
    /\ position[1] = JailPosition

=============================================================================
